---- MODULE Spec2Model ----
(***************************************************************************)
(* Model of index.js of kando-menu/gnome-icons: the one-shot build script  *)
(* that loads the icon sprite, crops one SVG per <title>, writes the       *)
(* manifest, optimizes and flattens the files.                             *)
(*                                                                         *)
(* Strings that the code inspects (title texts, attribute values) are      *)
(* sequences of one-character strings, so that String.prototype.search,    *)
(* the selector lookup and the number test of attr() are computed.         *)
(***************************************************************************)
EXTENDS Integers, Sequences, FiniteSets, TLC

\* ------------------------------------------------------------------ bounds
MaxTitles == 2      \* <title> elements in one sprite
MaxRuns == 2        \* runs of the script in a sequence of runs

\* ------------------------------------------------------- JavaScript values
Undefined == [tag |-> "undefined"]
Null == [tag |-> "null"]
ObjectFn == [tag |-> "function"]
Arr(items) == [tag |-> "array", items |-> items]
Str(chars) == [tag |-> "string", value |-> chars]
Num(n) == [tag |-> "number", value |-> n]

\* ToBoolean of the values that occur in the script's conditions.
Truthy(v) ==
    CASE v.tag = "undefined" -> FALSE
      [] v.tag = "null" -> FALSE
      [] v.tag = "number" -> v.value # 0
      [] v.tag = "string" -> Len(v.value) > 0
      [] OTHER -> TRUE

\* Properties every object literal inherits from Object.prototype.
ProtoKeys == { <<"v","a","l","u","e","O","f">> }

\* obj[key]: own property, else the inherited one, else undefined.
Get(obj, key) ==
    IF key \in DOMAIN obj THEN obj[key]
    ELSE IF key \in ProtoKeys THEN ObjectFn
    ELSE Undefined

\* obj[key] = v
Put(obj, key, v) ==
    [k \in (DOMAIN obj) \cup {key} |-> IF k = key THEN v ELSE obj[k]]

EmptyObj == [k \in {} |-> Undefined]

\* JSON.stringify of an object: own properties, dropping values JSON has
\* no form for (undefined, functions).
Stringify(obj) ==
    LET keep == {k \in DOMAIN obj : obj[k].tag \notin {"undefined", "function"}}
    IN [k \in keep |-> obj[k]]

\* ------------------------------------------------------------- the inputs
\* icons.json: canonical icon name -> alias list.
IconAliases ==
    [k \in { <<"a">> } |-> Arr(<< <<"a","1">>, <<"a","2">> >>)]

\* Title texts of the sprite: plain names, a name with an inner space, a
\* name with a leading space, and a name Object.prototype also has.
TitleTexts ==
    { <<"a">>, <<"b">>, <<"a"," ","b">>, <<" ","a">>,
      <<"v","a","l","u","e","O","f">> }

\* childNodes of a <title>: one text node, or none at all.
TitleChildNodes == { << >> } \cup { <<[nodeValue |-> t]>> : t \in TitleTexts }

NoAttrs == [k \in {} |-> << >>]
TitleNode(cn) == [id |-> "title", tag |-> "title", attrs |-> NoAttrs, childNodes |-> cn]
PathNode == [id |-> "p", tag |-> "path", attrs |-> NoAttrs, childNodes |-> << >>]
HitBox ==
    [id |-> "bg", tag |-> "rect",
     attrs |-> [k \in {"style"} |-> <<"f","i","l","l",":","n","o","n","e">>],
     childNodes |-> << >>]
UseNode(id, href) ==
    [id |-> id, tag |-> "use", attrs |-> [k \in {"xlink:href"} |-> href],
     childNodes |-> << >>]

\* Elements of the sprite's <defs>, addressed by id.
DefIds == { <<"d","1">> }
DefNode(id) == [id |-> id, tag |-> "symbol", attrs |-> NoAttrs, childNodes |-> << >>]

\* The parents a <title> can have in the sprite.
Shapes == {"rich", "broken", "emptyref", "nongroup"}

ShapeType(s) == IF s = "nongroup" THEN "path" ELSE "g"

ShapeBBox(s) ==
    CASE s = "rich" -> [x |-> 2, y |-> 3, width |-> 16, height |-> 16]
      [] s = "broken" -> [x |-> 0, y |-> 0, width |-> 16, height |-> 16]
      [] s = "emptyref" -> [x |-> 0, y |-> 20, width |-> 16, height |-> 16]
      [] OTHER -> [x |-> 1, y |-> 1, width |-> 8, height |-> 8]

ShapeChildren(s, cn) ==
    CASE s = "rich" ->
            <<TitleNode(cn), HitBox, PathNode, UseNode("u1", <<"#","d","1">>)>>
      [] s = "broken" ->
            <<TitleNode(cn), PathNode, UseNode("u2", <<"#","x">>)>>
      [] s = "emptyref" ->
            <<TitleNode(cn), UseNode("u3", << >>), UseNode("u0", <<"0">>)>>
      [] OTHER -> <<TitleNode(cn)>>

\* A sprite file: its titled elements in document order.
TitledOptions == [shape : Shapes, childNodes : TitleChildNodes]

SeqsUpTo(S, n) == UNION { [1..k -> S] : k \in 1..n }

Sprites == SeqsUpTo(TitledOptions, MaxTitles)

\* Sprites of the runs of a sequence of runs.
RunOptions ==
    [shape : {"emptyref"},
     childNodes : { << >>, <<[nodeValue |-> <<"a">>]>>, <<[nodeValue |-> <<"b">>]>>,
                    <<[nodeValue |-> <<"a"," ","b">>]>> }]
    \cup { [shape |-> "broken", childNodes |-> <<[nodeValue |-> <<"b">>]>>] }

RunSprites == SeqsUpTo(RunOptions, MaxTitles)

\* ------------------------------------------------------------------ state
VARIABLES
    sprite,      \* the sprite file src/src/icons.svg of this run
    runs,        \* number of runs started so far
    clean,       \* TRUE while no run so far was aborted by an error
    pc,          \* stage of the main script the run is in
    step,        \* position inside the stage: "begin", "each"
    svg,         \* the document loadSVG returned
    iconNodes,   \* svg.find('title')
    idx,         \* index of the title the forEach is at
    allIcons,    \* the object extractIcons accumulates
    written,     \* names extractIcons has written a file for, in order
    buildIcons,  \* directory build/icons
    distIcons,   \* directory dist/icons
    metaFile,    \* file dist/gnome-icons.json
    files,       \* what is left of the readdirSync result being iterated
    fontAssets   \* glyph names of the generated font

vars == <<sprite, runs, clean, pc, step, svg, iconNodes, idx, allIcons, written,
          buildIcons, distIcons, metaFile, files, fontAssets>>

NoDir == [exists |-> FALSE, entries |-> EmptyObj]
NoFile == [exists |-> FALSE, data |-> EmptyObj]
NoSvg == [loaded |-> FALSE, groups |-> << >>, defs |-> {}]

\* ---------------------------------------------------------------- helpers
\* createDir: make the directory unless it exists; what is in it stays.
createDir(dir) ==
    IF ~dir.exists THEN [exists |-> TRUE, entries |-> EmptyObj] ELSE dir

\* fs.writeFileSync(`${dir}/${name}.svg`, content)
writeFileSync(dir, name, content) ==
    [dir EXCEPT !.entries = Put(dir.entries, name, content)]

\* fs.readdirSync(dir)
readdirSync(dir) == DOMAIN dir.entries

\* loadSVG: parse the file into a document.
loadSVG(file) ==
    [loaded |-> TRUE,
     groups |-> [i \in 1..Len(file) |->
                   [type |-> ShapeType(file[i].shape),
                    bbox |-> ShapeBBox(file[i].shape),
                    children |-> ShapeChildren(file[i].shape, file[i].childNodes)]],
     defs |-> DefIds]

\* svg.find('title'): the <title> elements in document order.
findTitles(doc) ==
    LET titled == {i \in 1..Len(doc.groups) :
                     \E k \in 1..Len(doc.groups[i].children) :
                        doc.groups[i].children[k].tag = "title"}
    IN [i \in 1..Cardinality(titled) |->
          LET g == CHOOSE j \in titled : Cardinality({m \in titled : m < j}) = i - 1
              k == CHOOSE n \in 1..Len(doc.groups[g].children) :
                      doc.groups[g].children[n].tag = "title"
          IN [parent |-> g, node |-> doc.groups[g].children[k]]]

\* String.prototype.search(' '): index (from 0) of the first match, or -1.
RECURSIVE SearchFrom(_, _, _)
SearchFrom(s, ch, k) ==
    IF k > Len(s) THEN -1
    ELSE IF s[k] = ch THEN k - 1
    ELSE SearchFrom(s, ch, k + 1)

search(s, ch) == SearchFrom(s, ch, 1)

\* if (iconName.search(' ') > 0) return;
NotIncluded(iconName) == search(iconName, " ") > 0

\* if (allIcons[iconName]) return;
AlreadyStored(icons, iconName) == Truthy(Get(icons, iconName))

\* allIcons[iconName] = iconAliases[iconName] || [];
AliasesOfNoDefault(iconName) == Get(IconAliases, iconName)

AliasesOf(iconName) ==
    LET configured == Get(IconAliases, iconName)
    IN IF Truthy(configured) THEN configured ELSE Arr(<< >>)

Digits == {"0", "1", "2", "3", "4", "5", "6", "7", "8", "9"}

DigitValue(d) ==
    CASE d = "0" -> 0 [] d = "1" -> 1 [] d = "2" -> 2 [] d = "3" -> 3
      [] d = "4" -> 4 [] d = "5" -> 5 [] d = "6" -> 6 [] d = "7" -> 7
      [] d = "8" -> 8 [] OTHER -> 9

RECURSIVE ParseDigits(_, _, _)
ParseDigits(raw, k, acc) ==
    IF k > Len(raw) THEN acc
    ELSE ParseDigits(raw, k + 1, acc * 10 + DigitValue(raw[k]))

\* child.attr(name): undefined when the attribute is absent, a number when
\* the value is numeric, the string otherwise.
attr(node, name) ==
    IF name \notin DOMAIN node.attrs THEN Undefined
    ELSE LET raw == node.attrs[name]
         IN IF Len(raw) > 0 /\ \A k \in 1..Len(raw) : raw[k] \in Digits
            THEN Num(ParseDigits(raw, 1, 0))
            ELSE Str(raw)

\* svg.findOne(href): the element the selector "#id" matches, or null.
findOne(doc, href) ==
    IF href.tag = "string" /\ Len(href.value) > 1 /\ href.value[1] = "#"
       /\ Tail(href.value) \in doc.defs
    THEN [parent |-> 0, node |-> DefNode(Tail(href.value)), copy |-> FALSE]
    ELSE Null

\* element.clone(): a detached deep copy.
cloneMoved(el) == el

clone(el) == [el EXCEPT !.copy = TRUE]

RECURSIVE RemoveId(_, _)
RemoveId(children, id) ==
    IF children = << >> THEN << >>
    ELSE IF Head(children).id = id THEN RemoveId(Tail(children), id)
    ELSE <<Head(children)>> \o RemoveId(Tail(children), id)

\* group.add(el): append el to the group; an element that still has a
\* parent is taken out of it.
add(st, el) ==
    [st EXCEPT
       !.group = Append(st.group, el),
       !.doc = IF el.copy THEN st.doc
               ELSE IF el.parent = 0
                    THEN [st.doc EXCEPT !.defs = st.doc.defs \ {el.node.id}]
                    ELSE [st.doc EXCEPT !.groups[el.parent].children =
                              RemoveId(st.doc.groups[el.parent].children, el.node.id)]]

\* group.add(linked.clone()) of line 99; linked.clone() on null is a
\* TypeError.
addLinkedIfFound(st, linked) ==
    IF linked = Null THEN st ELSE add(st, clone(linked))

addLinked(st, linked) ==
    IF linked = Null THEN [st EXCEPT !.threw = TRUE] ELSE add(st, clone(linked))

\* container.children().forEach(...): copy the children, and for a child
\* with a truthy xlink:href the element it links to.
RECURSIVE copyChildren(_, _, _, _)
copyChildren(st, parent, children, k) ==
    IF k > Len(children) \/ st.threw THEN st
    ELSE LET child == [parent |-> parent, node |-> children[k], copy |-> FALSE]
             st1 == add(st, clone(child))
             href == attr(children[k], "xlink:href")
         IN IF Truthy(href)
            THEN copyChildren(addLinked(st1, findOne(st1.doc, href)),
                              parent, children, k + 1)
            ELSE copyChildren(st1, parent, children, k + 1)

\* The new SVG element of lines 81-89: viewBox, width, height, and the
\* top-level group translated to the bounding box.
croppedSVGAtBBox(bbox, group) ==
    [viewBox |-> <<bbox.x, bbox.y, bbox.width, bbox.height>>,
     width |-> bbox.width,
     height |-> bbox.height,
     translate |-> <<0, 0>>,
     elements |-> group,
     shapeRendering |-> TRUE,
     optimized |-> FALSE,
     flattened |-> FALSE]

croppedSVG(bbox, group) ==
    [viewBox |-> <<0, 0, bbox.width, bbox.height>>,
     width |-> bbox.width,
     height |-> bbox.height,
     translate |-> <<0 - bbox.x, 0 - bbox.y>>,
     elements |-> group,
     shapeRendering |-> TRUE,
     optimized |-> FALSE,
     flattened |-> FALSE]

\* The cropped SVG of a title's parent: lines 77-101.
crop(doc, parent) ==
    LET container == doc.groups[parent]
        st == copyChildren([group |-> << >>, doc |-> doc, threw |-> FALSE],
                           parent, container.children, 1)
    IN [threw |-> st.threw,
        doc |-> st.doc,
        file |-> croppedSVG(container.bbox, st.group)]

\* optimizeSVGs, one file: drop shape-rendering, run svgo.
optimizeFile(content) ==
    [content EXCEPT !.shapeRendering = FALSE, !.optimized = TRUE]

\* flattenSVGs, one file.
flattenFile(content) == [content EXCEPT !.flattened = TRUE]

\* optimizeSVGs writes into dstDirectory: line 138.
optimizeInPlace(src, dst, file) == dst

optimizeInto(src, dst, file) ==
    writeFileSync(dst, file, optimizeFile(src.entries[file]))

\* The main script, lines 160-166, then the font generation: the stage that
\* follows a stage.
AfterOptimizeFirst(stage) ==
    CASE stage = "createDir" -> "load"
      [] stage = "load" -> "optimize"
      [] stage = "optimize" -> "extract"
      [] stage = "extract" -> "flatten"
      [] stage = "flatten" -> "fonts"
      [] OTHER -> "done"

After(stage) ==
    CASE stage = "createDir" -> "load"
      [] stage = "load" -> "extract"
      [] stage = "extract" -> "optimize"
      [] stage = "optimize" -> "flatten"
      [] stage = "flatten" -> "fonts"
      [] OTHER -> "done"

\* ---------------------------------------------------------------- actions
InitWith(S) ==
    /\ sprite \in S
    /\ runs = 1
    /\ clean = TRUE
    /\ pc = "createDir"
    /\ step = "begin"
    /\ svg = NoSvg
    /\ iconNodes = << >>
    /\ idx = 0
    /\ allIcons = EmptyObj
    /\ written = << >>
    /\ buildIcons = NoDir
    /\ distIcons = NoDir
    /\ metaFile = NoFile
    /\ files = {}
    /\ fontAssets = {}

Init == InitWith(Sprites)

\* createDir('build/icons'); createDir('dist/icons');
CreateDirs ==
    /\ pc = "createDir"
    /\ buildIcons' = createDir(buildIcons)
    /\ distIcons' = createDir(distIcons)
    /\ pc' = After(pc)
    /\ UNCHANGED <<sprite, runs, clean, step, svg, iconNodes, idx, allIcons,
                   written, metaFile, files, fontAssets>>

\* const svg = loadSVG('src/src/icons.svg');
LoadSprite ==
    /\ pc = "load"
    /\ svg' = loadSVG(sprite)
    /\ pc' = After(pc)
    /\ UNCHANGED <<sprite, runs, clean, step, iconNodes, idx, allIcons, written,
                   buildIcons, distIcons, metaFile, files, fontAssets>>

\* extractIcons up to the forEach: lines 50-57.
ExtractBegin ==
    /\ pc = "extract" /\ step = "begin"
    /\ allIcons' = EmptyObj
    /\ iconNodes' = findTitles(svg)
    /\ idx' = 1
    /\ written' = << >>
    /\ step' = "each"
    /\ UNCHANGED <<sprite, runs, clean, pc, svg, buildIcons, distIcons, metaFile,
                   files, fontAssets>>

AtTitle == pc = "extract" /\ step = "each" /\ idx <= Len(iconNodes)

HasText(title) == Len(title.node.childNodes) > 0

NameOf(title) == title.node.childNodes[1].nodeValue

Abort ==
    /\ pc' = "aborted"
    /\ clean' = FALSE
    /\ UNCHANGED <<sprite, runs, step, svg, iconNodes, idx, allIcons, written,
                   buildIcons, distIcons, metaFile, files, fontAssets>>

SkipTitle ==
    /\ idx' = idx + 1
    /\ UNCHANGED <<sprite, runs, clean, pc, step, svg, iconNodes, allIcons, written,
                   buildIcons, distIcons, metaFile, files, fontAssets>>

\* line 63 on a <title> without a text node: TypeError, uncaught.
ThrowNoText ==
    /\ AtTitle
    /\ ~HasText(iconNodes[idx])
    /\ Abort

\* lines 66-68
SkipNotIncluded ==
    /\ AtTitle
    /\ HasText(iconNodes[idx])
    /\ NotIncluded(NameOf(iconNodes[idx]))
    /\ SkipTitle

\* lines 72-74
SkipStored ==
    /\ AtTitle
    /\ HasText(iconNodes[idx])
    /\ ~NotIncluded(NameOf(iconNodes[idx]))
    /\ AlreadyStored(allIcons, NameOf(iconNodes[idx]))
    /\ SkipTitle

Reached ==
    /\ AtTitle
    /\ HasText(iconNodes[idx])
    /\ ~NotIncluded(NameOf(iconNodes[idx]))
    /\ ~AlreadyStored(allIcons, NameOf(iconNodes[idx]))

\* line 99 when the link has no target: TypeError, uncaught.  The clones
\* added before it are in the discarded crop.
ThrowNoLinked ==
    /\ Reached
    /\ crop(svg, iconNodes[idx].parent).threw
    /\ svg' = crop(svg, iconNodes[idx].parent).doc
    /\ pc' = "aborted"
    /\ clean' = FALSE
    /\ UNCHANGED <<sprite, runs, step, iconNodes, idx, allIcons, written,
                   buildIcons, distIcons, metaFile, files, fontAssets>>

\* lines 77-107
WriteIcon ==
    /\ Reached
    /\ LET c == crop(svg, iconNodes[idx].parent)
           iconName == NameOf(iconNodes[idx])
       IN /\ ~c.threw
          /\ svg' = c.doc
          /\ buildIcons' = writeFileSync(buildIcons, iconName, c.file)
          /\ written' = Append(written, iconName)
          /\ allIcons' = Put(allIcons, iconName, AliasesOf(iconName))
    /\ idx' = idx + 1
    /\ UNCHANGED <<sprite, runs, clean, pc, step, iconNodes, distIcons, metaFile,
                   files, fontAssets>>

\* line 111 and the return to the main script.
WriteManifest ==
    /\ pc = "extract" /\ step = "each" /\ idx > Len(iconNodes)
    /\ metaFile' = [exists |-> TRUE, data |-> Stringify(allIcons)]
    /\ pc' = After(pc)
    /\ step' = "begin"
    /\ UNCHANGED <<sprite, runs, clean, svg, iconNodes, idx, allIcons, written,
                   buildIcons, distIcons, fontAssets, files>>

\* optimizeSVGs: line 121
OptimizeBegin ==
    /\ pc = "optimize" /\ step = "begin"
    /\ files' = readdirSync(buildIcons)
    /\ step' = "each"
    /\ UNCHANGED <<sprite, runs, clean, pc, svg, iconNodes, idx, allIcons, written,
                   buildIcons, distIcons, metaFile, fontAssets>>

\* one iteration of lines 126-139
OptimizeFile ==
    /\ pc = "optimize" /\ step = "each"
    /\ \E file \in files :
          /\ distIcons' = optimizeInto(buildIcons, distIcons, file)
          /\ files' = files \ {file}
    /\ UNCHANGED <<sprite, runs, clean, pc, step, svg, iconNodes, idx, allIcons,
                   written, buildIcons, metaFile, fontAssets>>

OptimizeEnd ==
    /\ pc = "optimize" /\ step = "each" /\ files = {}
    /\ pc' = After(pc)
    /\ step' = "begin"
    /\ UNCHANGED <<sprite, runs, clean, svg, iconNodes, idx, allIcons, written,
                   buildIcons, distIcons, metaFile, files, fontAssets>>

\* flattenSVGs: line 143
FlattenBegin ==
    /\ pc = "flatten" /\ step = "begin"
    /\ files' = readdirSync(distIcons)
    /\ step' = "each"
    /\ UNCHANGED <<sprite, runs, clean, pc, svg, iconNodes, idx, allIcons, written,
                   buildIcons, distIcons, metaFile, fontAssets>>

\* one iteration of lines 148-157
FlattenFile ==
    /\ pc = "flatten" /\ step = "each"
    /\ \E file \in files :
          /\ distIcons' = writeFileSync(distIcons, file,
                                        flattenFile(distIcons.entries[file]))
          /\ files' = files \ {file}
    /\ UNCHANGED <<sprite, runs, clean, pc, step, svg, iconNodes, idx, allIcons,
                   written, buildIcons, metaFile, fontAssets>>

FlattenEnd ==
    /\ pc = "flatten" /\ step = "each" /\ files = {}
    /\ pc' = After(pc)
    /\ step' = "begin"
    /\ UNCHANGED <<sprite, runs, clean, svg, iconNodes, idx, allIcons, written,
                   buildIcons, distIcons, metaFile, files, fontAssets>>

\* Font generation from the SVGs of dist/icons.
GenerateFonts ==
    /\ pc = "fonts"
    /\ fontAssets' = readdirSync(distIcons)
    /\ pc' = After(pc)
    /\ UNCHANGED <<sprite, runs, clean, step, svg, iconNodes, idx, allIcons, written,
                   buildIcons, distIcons, metaFile, files>>

\* The script is started again, on a sprite that may differ; the process
\* state is new, the files on disk are what the earlier runs left.
Rerun ==
    /\ pc \in {"done", "aborted"}
    /\ runs < MaxRuns
    /\ sprite' \in RunSprites
    /\ runs' = runs + 1
    /\ pc' = "createDir"
    /\ step' = "begin"
    /\ svg' = NoSvg
    /\ iconNodes' = << >>
    /\ idx' = 0
    /\ allIcons' = EmptyObj
    /\ written' = << >>
    /\ files' = {}
    /\ UNCHANGED <<clean, buildIcons, distIcons, metaFile, fontAssets>>

Next ==
    \/ CreateDirs
    \/ LoadSprite
    \/ ExtractBegin
    \/ ThrowNoText
    \/ SkipNotIncluded
    \/ SkipStored
    \/ ThrowNoLinked
    \/ WriteIcon
    \/ WriteManifest
    \/ OptimizeBegin
    \/ OptimizeFile
    \/ OptimizeEnd
    \/ FlattenBegin
    \/ FlattenFile
    \/ FlattenEnd
    \/ GenerateFonts

Spec == Init /\ [][Next]_vars

InitRuns == InitWith(RunSprites)

NextRuns == Next \/ Rerun

SpecRuns == InitRuns /\ [][NextRuns]_vars

\* ----------------------------------------------------------- the claims
Range(f) == {f[i] : i \in DOMAIN f}

HasSpace(text) == \E k \in 1..Len(text) : text[k] = " "

Count(log, name) == Cardinality({k \in 1..Len(log) : log[k] = name})

ExtractionFinished == pc \in {"optimize", "flatten", "fonts", "done"}

\* A step of the forEach that writes the file of the title it is at.
WritesIcon == written' # written

\* The parent of the title the forEach is at, and the file written for it.
ParentAtIdx == svg.groups[iconNodes[idx].parent]

FileAtIdx == buildIcons'.entries[NameOf(iconNodes[idx])]

IsFillNone(node) ==
    /\ "style" \in DOMAIN node.attrs
    /\ node.attrs["style"] = <<"f","i","l","l",":","n","o","n","e">>

HasHrefAttr(node) == "xlink:href" \in DOMAIN node.attrs

HasTruthyHref(node) ==
    /\ HasHrefAttr(node)
    /\ node.attrs["xlink:href"] # << >>
    /\ node.attrs["xlink:href"] # <<"0">>

\* C1: no title whose text contains a space, at any position, gets a file
\* in the output directory or a key in the manifest.
C1_SpaceTitlesSkipped ==
    \A i \in 1..Len(iconNodes) :
        (HasText(iconNodes[i]) /\ HasSpace(NameOf(iconNodes[i])))
        => /\ NameOf(iconNodes[i]) \notin Range(written)
           /\ NameOf(iconNodes[i]) \notin DOMAIN buildIcons.entries
           /\ NameOf(iconNodes[i]) \notin DOMAIN metaFile.data

\* C2: once extraction has finished, every space-free title text of the
\* sprite, whatever the name, has had exactly one file written for it and
\* has one entry in the manifest.
C2_OneFilePerName ==
    ExtractionFinished =>
        \A i \in 1..Len(iconNodes) :
            (HasText(iconNodes[i]) /\ ~HasSpace(NameOf(iconNodes[i])))
            => /\ Count(written, NameOf(iconNodes[i])) = 1
               /\ NameOf(iconNodes[i]) \in DOMAIN metaFile.data

\* C3: the manifest written by a completed extractIcons has as keys
\* exactly the titles a file was written for (those not skipped), each
\* mapped to its alias list of the alias table, or to the empty list when
\* the table has no entry.
C3_ManifestContent ==
    metaFile.exists =>
        /\ DOMAIN metaFile.data = Range(written)
        /\ \A name \in DOMAIN metaFile.data :
              metaFile.data[name] =
                 IF name \in DOMAIN IconAliases THEN IconAliases[name] ELSE Arr(<< >>)

C3_Witness ==
    /\ metaFile.exists
    /\ <<"a">> \in DOMAIN metaFile.data
    /\ <<"b">> \in DOMAIN metaFile.data

C5_NoFillNoneCopied ==
    [][WritesIcon =>
         /\ \A k \in 1..Len(FileAtIdx.elements) : ~IsFillNone(FileAtIdx.elements[k].node)
         /\ \A k \in 1..Len(ParentAtIdx.children) :
               ~IsFillNone(ParentAtIdx.children[k])
               => \E m \in 1..Len(FileAtIdx.elements) :
                     FileAtIdx.elements[m].node = ParentAtIdx.children[k]]_vars

\* C6: a space-free, not yet seen title whose parent is not a group is
\* skipped: no file, no manifest entry, no error, on to the next title.
C6_NonGroupSkipped ==
    [][(/\ AtTitle
        /\ HasText(iconNodes[idx])
        /\ ~HasSpace(NameOf(iconNodes[idx]))
        /\ NameOf(iconNodes[idx]) \notin Range(written)
        /\ ParentAtIdx.type # "g")
       => /\ buildIcons' = buildIcons
          /\ allIcons' = allIcons
          /\ written' = written
          /\ pc' = pc
          /\ idx' = idx + 1]_vars

\* The elements C7 expects in the file of the title the forEach is at:
\* per child its copy, followed by a copy of the link's target when
\* Linked(child); and the loaded sprite stays as it is.
LinkedCopies(Linked(_)) ==
    LET ch == ParentAtIdx.children
        els == FileAtIdx.elements
        pos(k) == k + Cardinality({j \in 1..(k - 1) : Linked(ch[j])})
    IN /\ Len(els) = Len(ch) + Cardinality({j \in 1..Len(ch) : Linked(ch[j])})
       /\ \A k \in 1..Len(ch) :
             /\ els[pos(k)] = [parent |-> iconNodes[idx].parent, node |-> ch[k],
                               copy |-> TRUE]
             /\ Linked(ch[k]) =>
                   /\ els[pos(k) + 1].copy
                   /\ els[pos(k) + 1].node.id = Tail(ch[k].attrs["xlink:href"])
                   /\ els[pos(k) + 1].node.id \in loadSVG(sprite).defs

\* C7 as claimed: every child that has an xlink:href attribute adds its
\* copy and a copy of the target, every other child one element, and the
\* sprite document is not modified.
C7_EveryHrefLinked ==
    [][/\ svg.loaded => svg' = svg
       /\ WritesIcon => LinkedCopies(HasHrefAttr)]_vars

\* C7 as amended: every child whose xlink:href value is truthy as attr()
\* returns it (present, not empty, not the number 0) adds its copy and a
\* copy of the target; every other child, one with an empty or zero
\* xlink:href included, adds one element; the sprite is not modified.
C7_TruthyHrefLinked ==
    [][/\ svg.loaded => svg' = svg
       /\ WritesIcon => LinkedCopies(HasTruthyHref)]_vars

C7_Witness ==
    /\ svg = loadSVG(sprite)
    /\ \E name \in DOMAIN buildIcons.entries :
          \E k \in 1..Len(buildIcons.entries[name].elements) :
              /\ buildIcons.entries[name].elements[k].node.tag = "symbol"
              /\ buildIcons.entries[name].elements[k].copy

\* The position of a stage in the order C8 states.
StageRank(stage) ==
    CASE stage = "createDir" -> 0
      [] stage = "load" -> 1
      [] stage = "extract" -> 2
      [] stage = "optimize" -> 3
      [] stage = "flatten" -> 4
      [] stage = "fonts" -> 5
      [] stage = "done" -> 6
      [] OTHER -> 7

AllOptimized ==
    \A name \in DOMAIN buildIcons.entries :
        /\ name \in DOMAIN distIcons.entries
        /\ distIcons.entries[name].optimized

AllFlattened ==
    \A name \in DOMAIN distIcons.entries : distIcons.entries[name].flattened

ErrorAtIdx ==
    /\ AtTitle
    /\ \/ iconNodes[idx].node.childNodes = << >>
       \/ /\ iconNodes[idx].node.childNodes # << >>
          /\ ~(search(NameOf(iconNodes[idx]), " ") > 0)
          /\ ~Truthy(Get(allIcons, NameOf(iconNodes[idx])))
          /\ \E k \in 1..Len(ParentAtIdx.children) :
                /\ HasTruthyHref(ParentAtIdx.children[k])
                /\ Tail(ParentAtIdx.children[k].attrs["xlink:href"]) \notin svg.defs

\* C9: an error at a title aborts the run there: nothing is written by the
\* failing step, no step follows it, and in the aborted run the manifest
\* and dist/icons are as they were and the files written before the error
\* are in build/icons.
C9_ErrorAborts ==
    [][/\ pc # "aborted"
       /\ ErrorAtIdx => /\ pc' = "aborted"
                        /\ idx' = idx
                        /\ buildIcons' = buildIcons
                        /\ distIcons' = distIcons
                        /\ metaFile' = metaFile
       /\ pc' = "aborted" => /\ ~metaFile'.exists
                             /\ DOMAIN distIcons'.entries = {}
                             /\ fontAssets' = {}
                             /\ Range(written') = DOMAIN buildIcons'.entries]_vars

C9_Witness ==
    /\ pc = "aborted"
    /\ Len(written) >= 1
    /\ idx = Len(iconNodes)

\* C10 as claimed: after a sequence of complete runs the files of
\* dist/icons are exactly the keys of the latest manifest.
C10_DistIsManifest ==
    (pc = "done" /\ clean) => DOMAIN distIcons.entries = DOMAIN metaFile.data

\* C10 as amended: after a run has completed, every key of the manifest it
\* wrote has a file in dist/icons, and dist/icons holds a file for every
\* file of build/icons, those left by earlier runs included.
C10_DistCoversManifest ==
    pc = "done" =>
        /\ DOMAIN metaFile.data \subseteq DOMAIN distIcons.entries
        /\ DOMAIN buildIcons.entries \subseteq DOMAIN distIcons.entries

C10_Witness ==
    /\ pc = "done"
    /\ clean
    /\ runs = 2
    /\ DOMAIN metaFile.data # {}
    /\ \E name \in DOMAIN distIcons.entries : name \notin DOMAIN metaFile.data

====
